---- MODULE Spec2Model ----
(***************************************************************************)
(* A model of package dag (sbward/level-dag): construction of Nodes with   *)
(* NewNode, assembly and validation of a Graph with New, TopologicalSort,  *)
(* and the concurrent Graph.Evaluate (one feeder goroutine, `concurrency`  *)
(* worker goroutines, the per-node WaitGroup and buffered inputs channel). *)
(*                                                                         *)
(* A *Node is its position in the sequence `nodes` (the order of the       *)
(* NewNode calls).  A node ID is a natural number standing for a string.   *)
(* Go's randomised map iteration is a nondeterministic choice of order.    *)
(***************************************************************************)
EXTENDS Integers, Sequences, FiniteSets, TLC

\* ------------------------------------------------------------------ bounds
MaxNodes == 4
    \* NewNode calls in a run of SpecBuild
MaxEvalNodes == 3
    \* NewNode calls in a run of Spec
MaxCycleNodes == 3
    \* NewNode calls in a run of SpecCycle
MaxFanOut == 2
    \* length of the `next` argument list of one NewNode call
MaxConcurrency == 2
    \* largest `concurrency` passed to Graph.Evaluate
MaxNegConcurrency == 1
    \* the smallest `concurrency` passed to Graph.Evaluate is -MaxNegConcurrency
MaxConst == 2
    \* Constant(n) is built with n in 1..MaxConst
MaxInputs == 3
    \* predecessors of the aggregating node in a run of SpecEvalFunc
MaxInputValue == 2
    \* their constants are in -MaxInputValue..MaxInputValue
MaxCapacity == 2
    \* MaxIndegree is set to a value in 1..MaxCapacity in a run of SpecFanIn
MaxCalls == 2
    \* calls of Graph.Evaluate on one Graph in a run of SpecAgain
DefaultMaxIndegree == 10
    \* graph.go:10  var MaxIndegree = 10

\* ------------------------------------------------------------------ state
VARIABLES
    nodes,        \* the Node objects built so far: ID, Next, eval, wait, indegree, inputs, Result
    MaxIndegree,  \* the package variable read by NewNode as the inputs capacity
    newpc,        \* position inside New: idle, validate, reversed, revwalk, done, crashed
    entries,      \* the nodes passed to New
    g,            \* the Graph being built / returned: ID -> *Node
    connected,    \* Validate's table: ID -> set of IDs marked true
    reversed,     \* the Graph made by g.Reversed(): ID -> Next IDs
    err,          \* the error New returns
    sorted,       \* the slice returned by the last TopologicalSort
    sorterr,      \* the error returned by the last TopologicalSort
    evalpc,       \* position of the caller after New: idle, sorted, running, returned, panic
    evalerr,      \* the error Evaluate returns
    concurrency,  \* Evaluate's argument
    fed,          \* how many nodes the feeder goroutine has handed over on `queue`
    queueClosed,  \* the feeder has closed `queue`
    wpc,          \* position of each worker goroutine
    wnode,        \* the node a worker is evaluating
    widx,         \* index into n.Next of the delivery a worker is making
    wg,           \* counter of Evaluate's local WaitGroup `wait`
    hist,         \* history: per node, who wrote Result, how often, and the inputs it aggregated
    calls         \* history: how many times Evaluate has been called on the Graph

buildVars == <<MaxIndegree, newpc, entries, g, connected, reversed, err>>
sortVars  == <<sorted, sorterr>>
poolVars  == <<concurrency, fed, queueClosed, wpc, wnode, widx, wg>>
vars == <<nodes, MaxIndegree, newpc, entries, g, connected, reversed, err, sorted, sorterr,
          evalpc, evalerr, concurrency, fed, queueClosed, wpc, wnode, widx, wg, hist, calls>>

\* ------------------------------------------------------------------ values
Nil == "nil"
ErrDuplicateNodeID == "duplicate node ID"
ErrCycle == "cycle detected"
ErrDisconnected == "disconnected node"
ErrMinConcurrency == "concurrency must be at least 1"
\* A runtime fault that ends the process instead of returning.
StackOverflow == "fatal error: stack overflow"
NoGraph == <<>>

Range(s) == {s[i] : i \in DOMAIN s}
Last(s) == s[Len(s)]
Perms(S) == {s \in [1..Cardinality(S) -> S] : \A i, j \in DOMAIN s : i # j => s[i] # s[j]}
Seqs(S, k) == UNION {[1..m -> S] : m \in 0..k}
Occurrences(s, x) == Cardinality({i \in DOMAIN s : s[i] = x})
\* Go evaluates the arguments of a call before the call.  TLC leaves the argument
\* of an operator unevaluated until it is used; comparing it with itself
\* evaluates it first.
Evaluated(v) == v = v

\* The EvalFunc values a Node can be given: Constant(n), Max, Min, Sum.
Constant(n) == [f |-> "Constant", n |-> n]
MaxFunc == [f |-> "Max", n |-> 0]
MinFunc == [f |-> "Min", n |-> 0]
SumFunc == [f |-> "Sum", n |-> 0]
EvalFuncs == {Constant(n) : n \in 1..MaxConst} \cup {MaxFunc, MinFunc, SumFunc}

\* ----------------------------------------------------------------- NewNode
\* graph.go:25-28: every node of `next` gets wait.Add(1) and indegree++ (once
\* per occurrence in the argument list).
AddIncoming(N, next) ==
    [i \in DOMAIN N |->
        [N[i] EXCEPT !.wait = @ + Occurrences(next, i),
                     !.indegree = @ + Occurrences(next, i)]]

\* graph.go:29-35: the new Node; Result and indegree are zero values.
MakeNode(id, eval, next, capacity) ==
    [ID |-> id, Next |-> next, eval |-> eval, wait |-> 0, indegree |-> 0,
     inputs |-> <<>>, closed |-> FALSE, cap |-> capacity, Result |-> 0]

NewNode(id, eval, next, limit) ==
    /\ newpc = "idle"
    /\ Len(nodes) < limit
    /\ nodes' = Append(AddIncoming(nodes, next), MakeNode(id, eval, next, MaxIndegree))
    /\ hist' = Append(hist, [writes |-> 0, writers |-> {}, seen |-> <<>>])
    /\ UNCHANGED <<buildVars, sortVars, evalpc, evalerr, poolVars, calls>>

\* graph_test.go:18-19: a.Next = append(a.Next, b), the direct assignment to the
\* exported field by which the test builds a cycle; wait and indegree of b are
\* not touched.
AppendNext(a, b) ==
    /\ newpc = "idle"
    /\ Len(nodes[a].Next) < MaxFanOut
    /\ nodes' = [nodes EXCEPT ![a].Next = Append(@, b)]
    /\ UNCHANGED <<buildVars, sortVars, evalpc, evalerr, poolVars, hist, calls>>

\* The same direct append to Next (graph_test.go:18-19), made on two nodes of a
\* Graph that New has already returned: Node.Next is an exported field and the
\* Graph holds pointers to the Nodes.
AppendNextInGraph(a, b) ==
    /\ newpc = "done"
    /\ err = Nil
    /\ evalpc = "idle"
    /\ \E ida, idb \in DOMAIN g : g[ida] = a /\ g[idb] = b
    /\ Len(nodes[a].Next) < MaxFanOut
    /\ nodes' = [nodes EXCEPT ![a].Next = Append(@, b)]
    /\ UNCHANGED <<buildVars, sortVars, evalpc, evalerr, poolVars, hist, calls>>

\* ------------------------------------------------------------ walkRecursive
\* The successor lists of the Node objects.
NextOf(N) == [i \in DOMAIN N |-> N[i].Next]

\* graph.go:185-193 on a structure with a cycle below n: the recursion meets n
\* again on its own path prev and never ends; the goroutine stack grows until
\* the runtime stops the process.
RECURSIVE StackOverflows(_, _, _)
StackOverflows(nx, n, prev) ==
    \/ n \in Range(prev)
    \/ \E i \in DOMAIN nx[n] : StackOverflows(nx, nx[n][i], Append(prev, n))

\* graph.go:185-193: the calls of visit made by n.walkRecursive(visit, prev), in
\* order (n first, then depth-first through n.Next).  Line 186 calls visit and
\* drops the error it returns, so no call of visit stops the walk.
RECURSIVE walkRecursive(_, _, _), walkChildren(_, _, _, _)
walkRecursive(nx, n, prev) ==
    <<[current |-> n, prev |-> prev]>> \o walkChildren(nx, n, prev, 1)
walkChildren(nx, n, prev, i) ==
    IF i > Len(nx[n]) THEN <<>>
    ELSE walkRecursive(nx, nx[n][i], Append(prev, n)) \o walkChildren(nx, n, prev, i + 1)

\* graph.go:185-193: the error n.walkRecursive returns, given the errors its
\* calls of visit returned: the result of visit(n, prev) is discarded (line 186)
\* and only the recursive calls' errors are passed up, so it is always nil.
walkRecursiveError(visitErrors) == Nil

\* graph.go:176-183: the calls of visit made by g.Walk when g.Roots() comes out
\* in the order `order`.
RECURSIVE Walk(_, _)
Walk(nx, order) ==
    IF order = <<>> THEN <<>>
    ELSE walkRecursive(nx, Head(order), <<>>) \o Walk(nx, Tail(order))

\* graph.go:159-171: the nodes of the graph with indegree == 0.
Roots(N, graph) == {graph[id] : id \in {k \in DOMAIN graph : N[graph[k]].indegree = 0}}

\* -------------------------------------------------------------------- New
\* graph.go:48-54: the visit function of New on one call, as (graph, error):
\* an ID already present is reported and left alone, a new ID is recorded.
NewVisit(N, graph, current) ==
    IF N[current].ID \in DOMAIN graph
    THEN [g |-> graph, err |-> ErrDuplicateNodeID]
    ELSE [g |-> graph @@ (N[current].ID :> current), err |-> Nil]

\* graph.go:47-59 for one entry node: visit applied along the walk; the errors
\* visit returned are kept in order.
RECURSIVE NewCollect(_, _, _, _)
NewCollect(N, graph, visits, errors) ==
    IF visits = <<>> THEN [g |-> graph, errors |-> errors]
    ELSE LET r == NewVisit(N, graph, Head(visits).current)
             e == Append(errors, r.err)
         IN  IF Evaluated(e) THEN NewCollect(N, r.g, Tail(visits), e)
             ELSE [g |-> graph, errors |-> errors]

\* graph.go:46-59: the loop over the entry nodes; it stops at the first entry
\* whose walkRecursive returns an error.
RECURSIVE NewEntries(_, _, _)
NewEntries(N, graph, es) ==
    IF es = <<>> THEN [g |-> graph, err |-> Nil]
    ELSE LET r == NewCollect(N, graph, walkRecursive(NextOf(N), Head(es), <<>>), <<>>)
             e == walkRecursiveError(r.errors)
         IN  IF e # Nil THEN [g |-> NoGraph, err |-> e]
             ELSE NewEntries(N, r.g, Tail(es))

\* graph.go:45-59: New up to the call of Validate.  A cycle below an entry node
\* makes walkRecursive recurse without end.
New(es) ==
    /\ newpc = "idle"
    /\ entries' = es
    /\ IF \E i \in DOMAIN es : StackOverflows(NextOf(nodes), es[i], <<>>)
       THEN /\ newpc' = "crashed"
            /\ err' = StackOverflow
            /\ g' = NoGraph
            /\ connected' = connected
       ELSE LET r == NewEntries(nodes, <<>>, es)
            IN  IF r.err # Nil
                THEN /\ newpc' = "done"
                     /\ err' = r.err
                     /\ g' = NoGraph
                     /\ connected' = connected
                ELSE /\ newpc' = "validate"
                     /\ err' = Nil
                     /\ g' = r.g
                        \* graph.go:77-92: every pair of distinct IDs starts false
                     /\ connected' = [id \in DOMAIN r.g |-> {}]
    /\ UNCHANGED <<nodes, MaxIndegree, reversed, sortVars, evalpc, evalerr, poolVars, hist, calls>>

\* --------------------------------------------------------------- Validate
\* graph.go:96-116 (and 129-142, which has no cycle test): the loop over prev
\* for one visited node.  conn[x] is the set of IDs y with connected[x][y] true.
RECURSIVE MarkConnected(_, _, _, _, _)
MarkConnected(conn, current, prev, i, cycleTest) ==
    IF i > Len(prev) THEN conn
    ELSE IF cycleTest /\ current = prev[i] THEN conn  \* return ErrCycle (line 100)
    ELSE LET p  == prev[i]
             c1 == [conn EXCEPT ![current] = @ \cup {p}]
             c2 == [c1 EXCEPT ![p] = @ \cup {current}]
             c3 == [c2 EXCEPT ![p] = @ \cup c2[current]]
             c4 == [c3 EXCEPT ![current] = @ \cup c3[p]]
         IN  IF Evaluated(c4) THEN MarkConnected(c4, current, prev, i + 1, cycleTest)
             ELSE conn

\* graph.go:96-101, 117: the error the visit function of Validate returns.
ValidateVisitError(v) == IF v.current \in Range(v.prev) THEN ErrCycle ELSE Nil

\* The visits of a walk over Node objects, with each node replaced by its ID.
VisitIDs(N, visits) ==
    [k \in DOMAIN visits |->
        [current |-> N[visits[k].current].ID,
         prev |-> [j \in DOMAIN visits[k].prev |-> N[visits[k].prev[j]].ID]]]

\* graph.go:95-118 / 128-144: the visit function applied along a whole walk.
RECURSIVE MarkWalk(_, _, _)
MarkWalk(conn, visits, cycleTest) ==
    IF visits = <<>> THEN conn
    ELSE LET c == MarkConnected(conn, Head(visits).current, Head(visits).prev, 1, cycleTest)
         IN  IF Evaluated(c) THEN MarkWalk(c, Tail(visits), cycleTest) ELSE conn

\* graph.go:94-122: the forward walk of Validate.  The error tested at line 120
\* is the one g.Walk returns, which is walkRecursive's.
ValidateWalk ==
    /\ newpc = "validate"
    /\ \E order \in Perms(Roots(nodes, g)) :
         LET visits == VisitIDs(nodes, Walk(NextOf(nodes), order))
             e == walkRecursiveError([k \in DOMAIN visits |-> ValidateVisitError(visits[k])])
         IN  IF e # Nil
             THEN /\ newpc' = "done"
                  /\ err' = e
                  /\ g' = NoGraph
                  /\ connected' = connected
             ELSE /\ newpc' = "reversed"
                  /\ connected' = MarkWalk(connected, visits, TRUE)
                  /\ UNCHANGED <<g, err>>
    /\ UNCHANGED <<nodes, MaxIndegree, entries, reversed, sortVars, evalpc, evalerr, poolVars, hist, calls>>

\* graph.go:198-223: the visit function of Reversed applied along a walk; the
\* result maps an ID to the IDs its copy points to.
RECURSIVE ReversedCollect(_, _, _)
ReversedCollect(N, result, visits) ==
    IF visits = <<>> THEN result
    ELSE LET v   == Head(visits)
             cid == N[v.current].ID
             r1  == IF cid \in DOMAIN result THEN result ELSE result @@ (cid :> <<>>)
             r2  == IF Len(v.prev) = 0 THEN r1
                    ELSE IF N[Last(v.prev)].ID \in Range(r1[cid]) THEN r1
                    ELSE [r1 EXCEPT ![cid] = Append(@, N[Last(v.prev)].ID)]
         IN  IF Evaluated(r2) THEN ReversedCollect(N, r2, Tail(visits)) ELSE result

\* graph.go:124, 196-225: reversed := g.Reversed().
ValidateReversed ==
    /\ newpc = "reversed"
    /\ \E order \in Perms(Roots(nodes, g)) :
         reversed' = ReversedCollect(nodes, <<>>, Walk(NextOf(nodes), order))
    /\ newpc' = "revwalk"
    /\ UNCHANGED <<nodes, MaxIndegree, entries, g, connected, err, sortVars, evalpc, evalerr,
                   poolVars, hist, calls>>

\* Mutant of ConnectedError: an error only when some node has reached no other node.
ConnectedErrorNoneReached(graph, conn) ==
    IF \E src \in DOMAIN graph :
          /\ DOMAIN graph # {src}
          /\ \A dst \in DOMAIN graph \ {src} : dst \notin conn[src]
    THEN ErrDisconnected
    ELSE Nil

\* graph.go:146-156: ErrDisconnected when some entry of the table is still false.
ConnectedError(graph, conn) ==
    IF \E src \in DOMAIN graph : \E dst \in DOMAIN graph \ {src} : dst \notin conn[src]
    THEN ErrDisconnected
    ELSE Nil

\* graph.go:128-156 and 60-63: the walk over the reversed graph, whose copies
\* all have indegree 0 (graph.go:201-207), the final test, and New's return.
ValidateReversedWalk ==
    /\ newpc = "revwalk"
    /\ \E order \in Perms(DOMAIN reversed) :
         IF \E i \in DOMAIN order : StackOverflows(reversed, order[i], <<>>)
         THEN /\ newpc' = "crashed"
              /\ err' = StackOverflow
              /\ g' = NoGraph
              /\ connected' = connected
         ELSE LET conn == MarkWalk(connected, Walk(reversed, order), FALSE)
                  e == ConnectedError(g, conn)
              IN  /\ newpc' = "done"
                  /\ connected' = conn
                  /\ err' = e
                  /\ g' = IF e # Nil THEN NoGraph ELSE g
    /\ UNCHANGED <<nodes, MaxIndegree, entries, reversed, sortVars, evalpc, evalerr, poolVars, hist, calls>>

\* -------------------------------------------------------- TopologicalSort
\* graph.go:259-288: s.visit(node) on the sorter state s.  The error of the
\* recursive call at line 275 is not looked at.
\* Mutant of prependToSorted: the node is put at the end of the slice.
appendToSorted(sorted_, n) == Append(sorted_, n)

\* graph.go:255-257
prependToSorted(sorted_, n) == <<n>> \o sorted_

RECURSIVE visit(_, _, _), visitNext(_, _, _, _)
visit(N, s, node) ==
    IF node \in s.visited THEN [s EXCEPT !.err = Nil]
    ELSE IF node \in s.visiting THEN [s EXCEPT !.err = ErrCycle]
    ELSE LET s1 == [s EXCEPT !.visiting = @ \cup {node}]
             s2 == visitNext(N, s1, node, 1)
         IN  [s2 EXCEPT !.visiting = @ \ {node},
                        !.visited = @ \cup {node},
                        !.sorted = prependToSorted(@, node),
                        !.err = Nil]
visitNext(N, s, node, i) ==
    IF i > Len(N[node].Next) THEN s
    ELSE visitNext(N, visit(N, s, N[node].Next[i]), node, i + 1)

\* graph.go:240-247: the loop over the roots, in the order g.Roots() gave them.
RECURSIVE visitRoots(_, _, _)
visitRoots(N, s, order) ==
    IF order = <<>> THEN s
    ELSE LET s1 == visit(N, s, Head(order))
         IN  IF s1.err # Nil THEN [s1 EXCEPT !.sorted = <<>>]
             ELSE visitRoots(N, s1, Tail(order))

\* graph.go:232-248: (sorted, err) of g.TopologicalSort().
TopologicalSortResult(N, order) ==
    visitRoots(N, [visiting |-> {}, visited |-> {}, sorted |-> <<>>, err |-> Nil], order)

\* A call of g.TopologicalSort() on a graph New returned (topological_sort_test.go:54).
TopologicalSort ==
    /\ newpc = "done"
    /\ err = Nil
    /\ evalpc = "idle"
    /\ \E order \in Perms(Roots(nodes, g)) :
         LET s == TopologicalSortResult(nodes, order)
         IN  /\ sorted' = s.sorted
             /\ sorterr' = s.err
    /\ evalpc' = "sorted"
    /\ UNCHANGED <<nodes, buildVars, evalerr, poolVars, hist, calls>>


\* ---------------------------------------------------------------- EvalFuncs
\* The argument `inputs` is what the closed channel still holds, oldest first.
\* evaluate.go:76-83
RECURSIVE MaxLoop(_, _)
MaxLoop(inputs, output) ==
    IF inputs = <<>> THEN output
    ELSE MaxLoop(Tail(inputs), IF Head(inputs) > output THEN Head(inputs) ELSE output)
Max(inputs) == MaxLoop(inputs, 0)

\* Mutant of Min: the first input is returned without looking at the rest.
MinFirstInput(inputs) == IF inputs = <<>> THEN 0 ELSE Head(inputs)

\* evaluate.go:86-97
RECURSIVE MinLoop(_, _)
MinLoop(inputs, output) ==
    IF inputs = <<>> THEN output
    ELSE MinLoop(Tail(inputs), IF Head(inputs) < output THEN Head(inputs) ELSE output)
Min(inputs) == IF inputs = <<>> THEN 0 ELSE MinLoop(Tail(inputs), Head(inputs))

\* evaluate.go:100-105
RECURSIVE SumLoop(_, _)
SumLoop(inputs, output) ==
    IF inputs = <<>> THEN output
    ELSE SumLoop(Tail(inputs), output + Head(inputs))
\* Mutant of Sum: the running total starts at one.
SumFromOne(inputs) == SumLoop(inputs, 1)
Sum(inputs) == SumLoop(inputs, 0)

\* Mutant of Apply: a Constant node that has received a value returns that value.
ApplyForwardsInput(eval, inputs) ==
    CASE eval.f = "Constant" -> IF inputs = <<>> THEN eval.n ELSE Head(inputs)
      [] eval.f = "Max" -> Max(inputs)
      [] eval.f = "Min" -> Min(inputs)
      [] eval.f = "Sum" -> Sum(inputs)

\* evaluate.go:56: n.eval(n.inputs); Constant(n) (evaluate.go:69-73) ignores the channel.
Apply(eval, inputs) ==
    CASE eval.f = "Constant" -> eval.n
      [] eval.f = "Max" -> Max(inputs)
      [] eval.f = "Min" -> Min(inputs)
      [] eval.f = "Sum" -> Sum(inputs)

\* What n.eval leaves in the channel: Max, Min and Sum read it to the end.
Drained(eval, inputs) == IF eval.f = "Constant" THEN inputs ELSE <<>>

\* ----------------------------------------------------------- Graph.Evaluate
Workers == 1..MaxConcurrency

\* Mutant of ArgumentError: only a negative concurrency is refused.
ArgumentErrorNegativeOnly(c) == IF c < 0 THEN ErrMinConcurrency ELSE Nil

\* evaluate.go:15-17: the test of the argument.
ArgumentError(c) == IF c < 1 THEN ErrMinConcurrency ELSE Nil

\* Mutant of StartWorkers: a goroutine is started for every worker slot.
StartAllWorkers(c) == [w \in Workers |-> "range"]

\* evaluate.go:37-46: one goroutine per i in 0..concurrency-1, each about to
\* range over queue.
StartWorkers(c) == [w \in Workers |-> IF w <= c THEN "range" ELSE "off"]

\* evaluate.go:14-46: the call of Evaluate up to wait.Wait(): the argument
\* test, the sort, the feeder goroutine and the workers, each after wait.Add(1).
\* queue, the WaitGroup and the goroutines are local to the call and new each
\* time; the Nodes (wait, inputs, Result) are the Graph's and are left as found.
EvaluateCall(c) ==
    /\ newpc = "done"
    /\ err = Nil
    /\ concurrency' = c
    /\ IF ArgumentError(c) # Nil
       THEN /\ evalpc' = "returned"
            /\ evalerr' = ArgumentError(c)
            /\ UNCHANGED <<sortVars, fed, queueClosed, wpc, wnode, widx, wg>>
       ELSE \E order \in Perms(Roots(nodes, g)) :
              LET s == TopologicalSortResult(nodes, order)
              IN  /\ sorted' = s.sorted
                  /\ sorterr' = s.err
                  /\ IF s.err # Nil
                     THEN /\ evalpc' = "returned"
                          /\ evalerr' = s.err
                          /\ UNCHANGED <<fed, queueClosed, wpc, wnode, widx, wg>>
                     ELSE /\ evalpc' = "running"
                          /\ evalerr' = Nil
                          /\ fed' = 0
                          /\ queueClosed' = FALSE
                          /\ wpc' = StartWorkers(c)
                          /\ wnode' = [w \in Workers |-> 0]
                          /\ widx' = [w \in Workers |-> 0]
                          /\ wg' = c
       \* New has returned: its arguments and Validate's tables are gone.
    /\ entries' = <<>>
    /\ connected' = <<>>
    /\ reversed' = <<>>
    /\ calls' = calls + 1
    /\ UNCHANGED <<nodes, MaxIndegree, newpc, g, err, hist>>

\* The first call of Evaluate on the Graph returned by New.
Evaluate(c) ==
    /\ evalpc = "idle"
    /\ EvaluateCall(c)

\* A further call of Evaluate on the same Graph after the call before it has
\* returned: nothing in evaluate.go:14-51 tests for an earlier call.
EvaluateAgain(c) ==
    /\ evalpc = "returned"
    /\ calls < MaxCalls
    /\ EvaluateCall(c)

\* Mutant of QueueReceive: the feeder hands the sorted slice over from its end.
QueueReceiveFromEnd(w) ==
    /\ evalpc = "running"
    /\ wpc[w] = "range"
    /\ fed < Len(sorted)
    /\ fed' = fed + 1
    /\ wnode' = [wnode EXCEPT ![w] = sorted[Len(sorted) - fed]]
    /\ wpc' = [wpc EXCEPT ![w] = "wait"]
    /\ UNCHANGED <<nodes, buildVars, sortVars, evalpc, evalerr, concurrency, queueClosed, widx,
                   wg, hist, calls>>

\* evaluate.go:29 and 40: queue is unbuffered, so the feeder's send of the next
\* node and one worker's receive happen together.
QueueReceive(w) ==
    /\ evalpc = "running"
    /\ wpc[w] = "range"
    /\ fed < Len(sorted)
    /\ fed' = fed + 1
    /\ wnode' = [wnode EXCEPT ![w] = sorted[fed + 1]]
    /\ wpc' = [wpc EXCEPT ![w] = "wait"]
    /\ UNCHANGED <<nodes, buildVars, sortVars, evalpc, evalerr, concurrency, queueClosed, widx,
                   wg, hist, calls>>

\* evaluate.go:31: close(queue) after the last send.
QueueClose ==
    /\ evalpc = "running"
    /\ fed = Len(sorted)
    /\ ~queueClosed
    /\ queueClosed' = TRUE
    /\ UNCHANGED <<nodes, buildVars, sortVars, evalpc, evalerr, concurrency, fed, wpc, wnode,
                   widx, wg, hist, calls>>

\* evaluate.go:40, 44: the range loop ends on the closed queue; wait.Done().
WorkerDone(w) ==
    /\ evalpc = "running"
    /\ wpc[w] = "range"
    /\ queueClosed
    /\ wpc' = [wpc EXCEPT ![w] = "done"]
    /\ wg' = wg - 1
    /\ UNCHANGED <<nodes, buildVars, sortVars, evalpc, evalerr, concurrency, fed, queueClosed,
                   wnode, widx, hist, calls>>

\* Mutant of NodeWait: the worker goes on without waiting for the counter.
NodeWaitNoCounter(w) ==
    /\ evalpc = "running"
    /\ wpc[w] = "wait"
    /\ wpc' = [wpc EXCEPT ![w] = "close"]
    /\ UNCHANGED <<nodes, buildVars, sortVars, evalpc, evalerr, concurrency, fed, queueClosed,
                   wnode, widx, wg, hist, calls>>

\* Mutant of NodeWait: the worker goes on while one delivery is still missing.
NodeWaitOneMissing(w) ==
    /\ evalpc = "running"
    /\ wpc[w] = "wait"
    /\ nodes[wnode[w]].wait <= 1
    /\ wpc' = [wpc EXCEPT ![w] = "close"]
    /\ UNCHANGED <<nodes, buildVars, sortVars, evalpc, evalerr, concurrency, fed, queueClosed,
                   wnode, widx, wg, hist, calls>>

\* evaluate.go:54: n.wait.Wait() returns once the counter is zero.
NodeWait(w) ==
    /\ evalpc = "running"
    /\ wpc[w] = "wait"
    /\ nodes[wnode[w]].wait = 0
    /\ wpc' = [wpc EXCEPT ![w] = "close"]
    /\ UNCHANGED <<nodes, buildVars, sortVars, evalpc, evalerr, concurrency, fed, queueClosed,
                   wnode, widx, wg, hist, calls>>

\* Mutant of NodeClose: closing a channel that is already closed does nothing.
NodeCloseClosedIsNoOp(w) ==
    /\ evalpc = "running"
    /\ wpc[w] = "close"
    /\ nodes' = [nodes EXCEPT ![wnode[w]].closed = TRUE]
    /\ wpc' = [wpc EXCEPT ![w] = "eval"]
    /\ UNCHANGED <<buildVars, sortVars, evalpc, evalerr, concurrency, fed, queueClosed, wnode,
                   widx, wg, hist, calls>>

\* evaluate.go:55: close(n.inputs); closing a closed channel panics.
NodeClose(w) ==
    /\ evalpc = "running"
    /\ wpc[w] = "close"
    /\ IF nodes[wnode[w]].closed
       THEN /\ evalpc' = "panic"
            /\ UNCHANGED <<nodes, wpc>>
       ELSE /\ nodes' = [nodes EXCEPT ![wnode[w]].closed = TRUE]
            /\ wpc' = [wpc EXCEPT ![w] = "eval"]
            /\ evalpc' = evalpc
    /\ UNCHANGED <<buildVars, sortVars, evalerr, concurrency, fed, queueClosed, wnode, widx, wg,
                   hist, calls>>

\* evaluate.go:56-58: n.Result = n.eval(n.inputs), then the loop over n.Next starts.
NodeEval(w) ==
    /\ evalpc = "running"
    /\ wpc[w] = "eval"
    /\ LET n == wnode[w]
       IN  /\ nodes' = [nodes EXCEPT ![n].Result = Apply(nodes[n].eval, nodes[n].inputs),
                                     ![n].inputs = Drained(nodes[n].eval, @)]
           /\ hist' = [hist EXCEPT ![n].writes = @ + 1,
                                   ![n].writers = @ \cup {w},
                                   ![n].seen = nodes[n].inputs]
           /\ wpc' = [wpc EXCEPT ![w] = IF nodes[n].Next = <<>> THEN "range" ELSE "send"]
           /\ widx' = [widx EXCEPT ![w] = 1]
    /\ UNCHANGED <<buildVars, sortVars, evalpc, evalerr, concurrency, fed, queueClosed, wnode, wg,
                   calls>>

\* evaluate.go:59, 64: next.receive(n.Result) sends on next.inputs: it blocks
\* while the buffer is full and panics when the channel is closed.
ReceiveSend(w) ==
    /\ evalpc = "running"
    /\ wpc[w] = "send"
    /\ LET n == wnode[w]
           next == nodes[n].Next[widx[w]]
       IN  IF nodes[next].closed
           THEN /\ evalpc' = "panic"
                /\ UNCHANGED <<nodes, wpc>>
           ELSE /\ Len(nodes[next].inputs) < nodes[next].cap
                /\ nodes' = [nodes EXCEPT ![next].inputs = Append(@, nodes[n].Result)]
                /\ wpc' = [wpc EXCEPT ![w] = "done_input"]
                /\ evalpc' = evalpc
    /\ UNCHANGED <<buildVars, sortVars, evalerr, concurrency, fed, queueClosed, wnode, widx, wg,
                   hist, calls>>

\* Mutant of ReceiveDone: the delivery is made but the counter is not lowered.
ReceiveDoneKeepsCounter(w) ==
    /\ evalpc = "running"
    /\ wpc[w] = "done_input"
    /\ wpc' = [wpc EXCEPT ![w] = IF widx[w] = Len(nodes[wnode[w]].Next) THEN "range" ELSE "send"]
    /\ widx' = [widx EXCEPT ![w] = @ + 1]
    /\ UNCHANGED <<nodes, buildVars, sortVars, evalpc, evalerr, concurrency, fed, queueClosed,
                   wnode, wg, hist, calls>>

\* evaluate.go:65, 58: n.wait.Done() of the receiving node (a negative counter
\* panics), then the next element of n.Next or back to the range over queue.
ReceiveDone(w) ==
    /\ evalpc = "running"
    /\ wpc[w] = "done_input"
    /\ LET n == wnode[w]
           next == nodes[n].Next[widx[w]]
       IN  IF nodes[next].wait = 0
           THEN /\ evalpc' = "panic"
                /\ UNCHANGED <<nodes, wpc, widx>>
           ELSE /\ nodes' = [nodes EXCEPT ![next].wait = @ - 1]
                /\ wpc' = [wpc EXCEPT ![w] = IF widx[w] = Len(nodes[n].Next) THEN "range" ELSE "send"]
                /\ widx' = [widx EXCEPT ![w] = @ + 1]
                /\ evalpc' = evalpc
    /\ UNCHANGED <<buildVars, sortVars, evalerr, concurrency, fed, queueClosed, wnode, wg, hist, calls>>

\* evaluate.go:48-50: wait.Wait() returns when every worker is done; return nil.
EvaluateReturn ==
    /\ evalpc = "running"
    /\ wg = 0
    /\ evalpc' = "returned"
    /\ evalerr' = Nil
    /\ UNCHANGED <<nodes, buildVars, sortVars, poolVars, hist, calls>>

\* The steps of the goroutines of one Evaluate call.
Goroutines ==
    \/ QueueClose
    \/ EvaluateReturn
    \/ \E w \in Workers :
         \/ QueueReceive(w)
         \/ WorkerDone(w)
         \/ NodeWait(w)
         \/ NodeClose(w)
         \/ NodeEval(w)
         \/ ReceiveSend(w)
         \/ ReceiveDone(w)

\* ------------------------------------------------- vocabulary of the claims
\* The nodes reached from the set S along Next edges, S included.
RECURSIVE ReachFrom(_)
ReachFrom(S) ==
    LET T == S \cup UNION {Range(nodes[n].Next) : n \in S}
    IN  IF T = S THEN S ELSE ReachFrom(T)
\* The nodes walkRecursive reaches from the entry nodes passed to New.
Reached == ReachFrom(Range(entries))
\* The nodes of the graph New returned.
GraphNodes == {g[id] : id \in DOMAIN g}

Edge(a, b) == b \in Range(nodes[a].Next)
\* The nodes below n along Next edges (n itself only when it lies on a cycle).
Below(n) == ReachFrom(Range(nodes[n].Next))
\* The edges into n from the nodes of S, one per position in a Next list.
IncomingEdges(S, n) ==
    {e \in S \X (1..MaxFanOut) : e[2] \in DOMAIN nodes[e[1]].Next /\ nodes[e[1]].Next[e[2]] = n}

UniqueIDs(S) == \A a, b \in S : nodes[a].ID = nodes[b].ID => a = b
Acyclic(S) == \A n \in S : n \notin Below(n)
RECURSIVE Component(_, _)
Component(S, C) ==
    LET T == C \cup {b \in S : \E a \in C : Edge(a, b) \/ Edge(b, a)}
    IN  IF T = C THEN C ELSE Component(S, T)
OneComponent(S) == \A n \in S : Component(S, {n}) = S
\* The dependency count of every node is the number of edges into it from S.
CountsMatch(S) == \A n \in S : nodes[n].indegree = Cardinality(IncomingEdges(S, n))

\* New has returned a graph, and the graph is valid in the sense of the data
\* model: its nodes are all that is reachable, IDs are unique, there is no cycle,
\* and every dependency count is the number of incoming edges.
NewReturnedGraph == newpc = "done" /\ err = Nil
ValidGraph ==
    /\ NewReturnedGraph
    /\ ReachFrom(GraphNodes) = GraphNodes
    /\ UniqueIDs(GraphNodes)
    /\ Acyclic(GraphNodes)
    /\ OneComponent(GraphNodes)
    /\ CountsMatch(GraphNodes)

\* ---------------------------------------------------------- specifications
Init ==
    /\ nodes = <<>>
    /\ MaxIndegree = DefaultMaxIndegree
    /\ newpc = "idle"
    /\ entries = <<>>
    /\ g = NoGraph
    /\ connected = <<>>
    /\ reversed = <<>>
    /\ err = Nil
    /\ sorted = <<>>
    /\ sorterr = Nil
    /\ evalpc = "idle"
    /\ evalerr = Nil
    /\ concurrency = 0
    /\ fed = 0
    /\ queueClosed = FALSE
    /\ wpc = [w \in 1..MaxConcurrency |-> "off"]
    /\ wnode = [w \in 1..MaxConcurrency |-> 0]
    /\ widx = [w \in 1..MaxConcurrency |-> 0]
    /\ wg = 0
    /\ hist = <<>>
    /\ calls = 0

\* The IDs in use; a new node takes one of them or the next unused one.
UsedIDs == {nodes[i].ID : i \in DOMAIN nodes}
FreshID == Cardinality(UsedIDs) + 1

\* The argument lists of New: the nodes built so far, any subset, in the order built.
RECURSIVE SeqOfSet(_)
SeqOfSet(S) ==
    IF S = {} THEN <<>>
    ELSE LET m == CHOOSE x \in S : \A y \in S : x <= y
         IN  <<m>> \o SeqOfSet(S \ {m})
EntryLists == {SeqOfSet(S) : S \in SUBSET (DOMAIN nodes)}

\* Construction with NewNode (IDs may repeat), New, and TopologicalSort.
StepBuild ==
    \/ \E id \in 1..FreshID, next \in Seqs(DOMAIN nodes, MaxFanOut) :
         NewNode(id, Constant(1), next, MaxNodes)
    \/ \E es \in EntryLists : New(es)
    \/ ValidateWalk
    \/ ValidateReversed
    \/ ValidateReversedWalk
    \/ TopologicalSort

SpecBuild == Init /\ [][StepBuild]_vars

\* Construction with NewNode (every ID new), New, and Evaluate.
Step ==
    \/ \E eval \in EvalFuncs, next \in Seqs(DOMAIN nodes, MaxFanOut) :
         NewNode(FreshID, eval, next, MaxEvalNodes)
    \/ \E es \in EntryLists : New(es)
    \/ ValidateWalk
    \/ ValidateReversed
    \/ ValidateReversedWalk
    \/ \E c \in -MaxNegConcurrency..MaxConcurrency : Evaluate(c)
    \/ Goroutines

Spec == Init /\ [][Step]_vars

\* Construction with NewNode and direct appends to Next (cycles), then New.
StepCycle ==
    \/ \E next \in Seqs(DOMAIN nodes, MaxFanOut) :
         NewNode(FreshID, Constant(1), next, MaxCycleNodes)
    \/ \E a, b \in DOMAIN nodes : AppendNext(a, b)
    \/ \E es \in EntryLists : New(es)
    \/ ValidateWalk
    \/ ValidateReversed
    \/ ValidateReversedWalk
    \/ TopologicalSort

SpecCycle == Init /\ [][StepCycle]_vars

\* Construction and New, then direct appends to Next inside the returned Graph
\* (which can close a cycle), then TopologicalSort.
StepSort ==
    \/ \E next \in Seqs(DOMAIN nodes, MaxFanOut) :
         NewNode(FreshID, Constant(1), next, MaxCycleNodes)
    \/ \E es \in EntryLists : New(es)
    \/ ValidateWalk
    \/ ValidateReversed
    \/ ValidateReversedWalk
    \/ \E a, b \in DOMAIN nodes : AppendNextInGraph(a, b)
    \/ TopologicalSort

SpecSort == Init /\ [][StepSort]_vars

\* The EvalFuncs on their own.  The run starts inside an Evaluate(1) of the
\* graph in which k nodes Constant(vals[1]), ..., Constant(vals[k]) (k may be 0,
\* a constant may be negative) all point to one node `sink` with Max, Min or
\* Sum: the worker has evaluated the constants in the sorted order, delivered
\* their results, taken sink off the queue, passed n.wait.Wait() and closed
\* sink's inputs (evaluate.go:54-55); the next step is n.eval(n.inputs).
EvalFuncStart(eval, vals) ==
    LET k == Len(vals)
        sink == [ID |-> 1, Next |-> <<>>, eval |-> eval, wait |-> 0, indegree |-> k,
                 inputs |-> vals, closed |-> TRUE, cap |-> DefaultMaxIndegree, Result |-> 0]
        pred(i) == [ID |-> i + 1, Next |-> <<1>>, eval |-> Constant(vals[i]), wait |-> 0,
                    indegree |-> 0, inputs |-> <<>>, closed |-> TRUE,
                    cap |-> DefaultMaxIndegree, Result |-> vals[i]]
    IN  /\ nodes = [i \in 1..(k + 1) |-> IF i = 1 THEN sink ELSE pred(i - 1)]
        /\ hist = [i \in 1..(k + 1) |->
                     IF i = 1 THEN [writes |-> 0, writers |-> {}, seen |-> <<>>]
                     ELSE [writes |-> 1, writers |-> {1}, seen |-> <<>>]]
        /\ MaxIndegree = DefaultMaxIndegree
        /\ newpc = "done"
        /\ entries = <<>>
        /\ g = [id \in 1..(k + 1) |-> id]
        /\ connected = <<>>
        /\ reversed = <<>>
        /\ err = Nil
        /\ sorted = [i \in 1..(k + 1) |-> IF i = k + 1 THEN 1 ELSE i + 1]
        /\ sorterr = Nil
        /\ evalpc = "running"
        /\ evalerr = Nil
        /\ concurrency = 1
        /\ fed = k + 1
        /\ queueClosed = FALSE
        /\ wpc = [w \in Workers |-> IF w = 1 THEN "eval" ELSE "off"]
        /\ wnode = [w \in Workers |-> IF w = 1 THEN 1 ELSE 0]
        /\ widx = [w \in Workers |-> IF w = 1 /\ k > 0 THEN 2 ELSE 0]
        /\ wg = 1
        /\ calls = 1

InitEvalFunc ==
    \E eval \in {MaxFunc, MinFunc, SumFunc} :
      \E vals \in Seqs(-MaxInputValue..MaxInputValue, MaxInputs) :
        EvalFuncStart(eval, vals)

\* The rest of that Evaluate call: n.eval, the end of the queue, the return.
StepEvalFunc ==
    \/ \E w \in Workers : NodeEval(w)
    \/ QueueClose
    \/ \E w \in Workers : WorkerDone(w)
    \/ EvaluateReturn

SpecEvalFunc == InitEvalFunc /\ [][StepEvalFunc]_vars

\* Small arrival buffers: the package variable MaxIndegree (graph.go:10) is set
\* to a small value before the first NewNode, then construction, New, Evaluate.
InitFanIn ==
    /\ MaxIndegree \in 1..MaxCapacity
    /\ nodes = <<>>
    /\ newpc = "idle"
    /\ entries = <<>>
    /\ g = NoGraph
    /\ connected = <<>>
    /\ reversed = <<>>
    /\ err = Nil
    /\ sorted = <<>>
    /\ sorterr = Nil
    /\ evalpc = "idle"
    /\ evalerr = Nil
    /\ concurrency = 0
    /\ fed = 0
    /\ queueClosed = FALSE
    /\ wpc = [w \in 1..MaxConcurrency |-> "off"]
    /\ wnode = [w \in 1..MaxConcurrency |-> 0]
    /\ widx = [w \in 1..MaxConcurrency |-> 0]
    /\ wg = 0
    /\ hist = <<>>
    /\ calls = 0

StepFanIn ==
    \/ \E eval \in {Constant(1), SumFunc}, next \in Seqs(DOMAIN nodes, MaxFanOut) :
         NewNode(FreshID, eval, next, MaxEvalNodes)
    \/ \E es \in EntryLists : New(es)
    \/ ValidateWalk
    \/ ValidateReversed
    \/ ValidateReversedWalk
    \/ \E c \in 1..MaxConcurrency : Evaluate(c)
    \/ Goroutines

SpecFanIn == InitFanIn /\ [][StepFanIn]_vars

\* Construction, New, a call of Evaluate and, once it has returned, another
\* call of Evaluate on the same Graph.
StepAgain ==
    \/ \E eval \in {Constant(1), SumFunc}, next \in Seqs(DOMAIN nodes, MaxFanOut) :
         NewNode(FreshID, eval, next, MaxEvalNodes)
    \/ \E es \in EntryLists : New(es)
    \/ ValidateWalk
    \/ ValidateReversed
    \/ ValidateReversedWalk
    \/ \E c \in 1..MaxConcurrency : Evaluate(c)
    \/ \E c \in 1..MaxConcurrency : EvaluateAgain(c)
    \/ Goroutines

SpecAgain == Init /\ [][StepAgain]_vars

\* ------------------------------------------------------------------ claims
NewEnded == newpc \in {"done", "crashed"}
EvaluateReturnedNil == evalpc = "returned" /\ evalerr = Nil

\* The aggregations as functions of the collection of predecessor results alone
\* (vals maps each incoming edge to the value it carries): the fixed value, the
\* sum, the least and the greatest value, zero for no value.
RECURSIVE SumOfValues(_)
SumOfValues(vals) ==
    IF DOMAIN vals = {} THEN 0
    ELSE LET e == CHOOSE x \in DOMAIN vals : TRUE
         IN  vals[e] + SumOfValues([x \in DOMAIN vals \ {e} |-> vals[x]])
Aggregation(eval, vals) ==
    CASE eval.f = "Constant" -> eval.n
      [] eval.f = "Sum" -> SumOfValues(vals)
      [] eval.f = "Min" -> IF DOMAIN vals = {} THEN 0
                           ELSE CHOOSE v \in Range(vals) : \A u \in Range(vals) : v <= u
      [] eval.f = "Max" -> IF DOMAIN vals = {} THEN 0
                           ELSE CHOOSE v \in Range(vals) : \A u \in Range(vals) : v >= u
\* The value of node n fixed by the graph alone.
RECURSIVE Expected(_)
Expected(n) ==
    Aggregation(nodes[n].eval, [e \in IncomingEdges(GraphNodes, n) |-> Expected(e[1])])

\* C1: for every graph New returned and every concurrency >= 1, Evaluate never
\* deadlocks: while the call is running some goroutine can always take a step
\* (so that under fair scheduling it returns nil).
C1_EvaluateNeverDeadlocks == evalpc = "running" => ENABLED Goroutines

\* C2: after Evaluate has returned nil on a valid graph, the Result of every
\* node is the value fixed by the graph alone, the same for every worker count,
\* every interleaving of the workers and every arrival order of the inputs.
C2_ResultsDeterministic ==
    (EvaluateReturnedNil /\ ValidGraph) =>
        \A n \in GraphNodes : nodes[n].Result = Expected(n)
\* Two workers, and a Min node whose two inputs arrived larger one first.
C2_Witness ==
    /\ EvaluateReturnedNil /\ ValidGraph /\ concurrency = 2
    /\ \E n \in GraphNodes :
         /\ nodes[n].eval = MinFunc
         /\ Len(hist[n].seen) = 2
         /\ hist[n].seen[1] > hist[n].seen[2]

\* C3: in an evaluation of a valid graph, the inputs a node aggregated are
\* exactly one value per incoming edge, each the Result of that edge's source
\* (written once and not changed since), and the node's Result is the
\* aggregation of that collection.
C3_InputsArePredecessorResults ==
    ValidGraph =>
        \A n \in GraphNodes :
            hist[n].writes > 0 =>
                LET E == IncomingEdges(GraphNodes, n)
                    seen == hist[n].seen
                    res == [e \in E |-> nodes[e[1]].Result]
                IN  /\ Len(seen) = Cardinality(E)
                    /\ \A e \in E : hist[e[1]].writes = 1
                    /\ \A v \in Range(seen) \cup Range(res) :
                         Occurrences(seen, v) = Cardinality({e \in E : res[e] = v})
                    /\ nodes[n].Result = Aggregation(nodes[n].eval, res)
\* A node has aggregated two different values that came from two predecessors.
C3_Witness ==
    /\ ValidGraph
    /\ \E n \in GraphNodes :
         /\ hist[n].writes = 1
         /\ Len(hist[n].seen) = 2
         /\ hist[n].seen[1] # hist[n].seen[2]
         /\ nodes[n].eval.f # "Constant"
         /\ Cardinality({e[1] : e \in IncomingEdges(GraphNodes, n)}) = 2

\* C4: whenever Evaluate returns nil, every node of the graph has been
\* evaluated exactly once: its Result was written one time, by one worker.
C4_EveryNodeEvaluatedOnce ==
    (NewReturnedGraph /\ EvaluateReturnedNil) =>
        \A n \in GraphNodes : hist[n].writes = 1 /\ Cardinality(hist[n].writers) = 1

\* C5: for every valid graph, TopologicalSort returns no error and every node
\* stands in the slice after each node it is reachable from along Next edges,
\* whatever the order of the roots.
C5_SortedAfterPredecessors ==
    (evalpc = "sorted" /\ ValidGraph) =>
        /\ sorterr = Nil
        /\ \A a \in GraphNodes : \A b \in Below(a) :
             /\ a \in Range(sorted) /\ b \in Range(sorted)
             /\ \A i, j \in DOMAIN sorted : (sorted[i] = a /\ sorted[j] = b) => i < j
\* A sorted valid graph with two roots and a node reached along two paths.
C5_Witness ==
    /\ evalpc = "sorted" /\ ValidGraph
    /\ Cardinality(Roots(nodes, g)) = 2
    /\ \E a, b, c \in GraphNodes : Edge(a, b) /\ Edge(b, c) /\ Edge(a, c)

\* C6: for every graph New returned, the slice TopologicalSort returns holds
\* every node of the graph exactly once.
C6_SortedIsPermutation ==
    (evalpc = "sorted" /\ NewReturnedGraph) =>
        /\ Len(sorted) = Cardinality(GraphNodes)
        /\ Range(sorted) = GraphNodes

\* C7: New on nodes whose Next edges contain a cycle terminates and returns
\* ErrCycle and no graph.
C7_CycleRejected ==
    (NewEnded /\ ~Acyclic(Reached)) =>
        (newpc = "done" /\ err = ErrCycle /\ g = NoGraph)

\* C8, as stated: New on entry nodes that are not all in one component returns
\* ErrDisconnected and no graph.
C8_DisconnectedRejected ==
    (NewEnded /\ ~OneComponent(Reached)) =>
        (newpc = "done" /\ err = ErrDisconnected /\ g = NoGraph)
\* C8, amended: New on entry nodes that reach nodes with pairwise different
\* IDs and no cycle, and that are not all in one component, returns
\* ErrDisconnected and no graph, whatever the iteration order.
C8_DisconnectedRejectedUniqueAcyclic ==
    (NewEnded /\ UniqueIDs(Reached) /\ Acyclic(Reached) /\ ~OneComponent(Reached)) =>
        (newpc = "done" /\ err = ErrDisconnected /\ g = NoGraph)
\* New has rejected two components of two nodes each.
C8_Witness ==
    /\ newpc = "done" /\ err = ErrDisconnected
    /\ UniqueIDs(Reached) /\ Acyclic(Reached)
    /\ \E a, b, c, d \in Reached :
         /\ Edge(a, b) /\ Edge(c, d)
         /\ Component(Reached, {a}) = {a, b}
         /\ Component(Reached, {c}) = {c, d}

\* C9: for every acyclic structure with unique IDs that is one component when
\* edge direction is ignored (every edge into it coming from inside it), New's
\* Validate marks every ordered pair of distinct nodes connected and returns
\* nil, whatever the iteration order.
C9_ConnectedAccepted ==
    (NewEnded /\ UniqueIDs(Reached) /\ Acyclic(Reached) /\ OneComponent(Reached)
              /\ CountsMatch(Reached)) =>
        /\ newpc = "done" /\ err = Nil
        /\ \A src \in DOMAIN g : \A dst \in DOMAIN g \ {src} : dst \in connected[src]

\* C10: when two different nodes reached from the entries share an ID, New
\* returns ErrDuplicateNodeID and no graph; when no two do, it does not.
C10_DuplicateIDRejected ==
    NewEnded =>
        IF UniqueIDs(Reached) THEN err # ErrDuplicateNodeID
        ELSE newpc = "done" /\ err = ErrDuplicateNodeID /\ g = NoGraph

\* The workers that have taken a node off the queue and are inside evaluate().
Busy == {w \in Workers : wpc[w] \in {"wait", "close", "eval", "send", "done_input"}}
\* No node has been touched by an evaluation: Result, dependency counter and
\* arrival buffer are as NewNode left them.
Untouched ==
    \A n \in DOMAIN nodes :
        /\ nodes[n].Result = 0
        /\ nodes[n].wait = nodes[n].indegree
        /\ nodes[n].inputs = <<>>
        /\ ~nodes[n].closed
        /\ hist[n].writes = 0

\* C11: Evaluate called with concurrency < 1 returns ErrMinConcurrency at once
\* and does no work: no worker is started, nothing is sorted or fed, and no
\* node's Result, dependency counter or arrival buffer is changed.
C11_MinConcurrencyNoWork ==
    (evalpc # "idle" /\ concurrency < 1) =>
        /\ evalpc = "returned" /\ evalerr = ErrMinConcurrency
        /\ \A w \in Workers : wpc[w] = "off"
        /\ wg = 0 /\ fed = 0 /\ sorted = <<>>
        /\ Untouched
\* Evaluate with a negative concurrency has returned on a graph with an edge.
C11_Witness ==
    /\ evalpc = "returned" /\ evalerr = ErrMinConcurrency
    /\ concurrency < 0
    /\ \E a, b \in GraphNodes : Edge(a, b)

\* C12: TopologicalSort called on a graph that has a cycle reachable from a
\* root (a node with indegree 0) returns ErrCycle.
C12_SortReturnsErrCycle ==
    (evalpc = "sorted" /\ NewReturnedGraph
        /\ \E r \in Roots(nodes, g) : \E n \in ReachFrom({r}) : n \in Below(n)) =>
        sorterr = ErrCycle

\* The greatest element of a non-empty sequence of integers.
Highest(s) == CHOOSE v \in Range(s) : \A u \in Range(s) : v >= u

\* C13: a node evaluated with Max has as Result the highest of the inputs it
\* read, also when all of them are negative, and zero when it read none.
C13_MaxIsHighest ==
    \A n \in DOMAIN nodes :
        (nodes[n].eval = MaxFunc /\ hist[n].writes > 0) =>
            nodes[n].Result = IF hist[n].seen = <<>> THEN 0 ELSE Highest(hist[n].seen)

\* The graph of the "linked constants" case: node 1 = Constant(1) with no
\* successor, node 2 = Constant(2) with Next = <<node 1>>, and nothing else.
LinkedConstants ==
    /\ NewReturnedGraph
    /\ Len(nodes) = 2 /\ GraphNodes = {1, 2}
    /\ nodes[1].eval = Constant(1) /\ nodes[1].Next = <<>>
    /\ nodes[2].eval = Constant(2) /\ nodes[2].Next = <<1>>

\* C14, as stated: after Evaluate of the linked constants, with any worker
\* count, node 1 has Result 2.
C14_LinkedConstantsResultTwo ==
    (LinkedConstants /\ EvaluateReturnedNil) => nodes[1].Result = 2

\* C14, amended: after Evaluate of the linked constants, with any worker count,
\* node 1 has Result 1 and node 2 has Result 2; the 2 delivered by node 2 is not
\* lost, it is the one value left unread in node 1's closed arrival buffer.
C14_LinkedConstantsKeepOwnValue ==
    (LinkedConstants /\ EvaluateReturnedNil) =>
        /\ nodes[1].Result = 1
        /\ nodes[2].Result = 2
        /\ nodes[1].inputs = <<2>> /\ nodes[1].closed
\* The linked constants have been evaluated by two workers.
C14_Witness == LinkedConstants /\ EvaluateReturnedNil /\ concurrency = 2

\* The graph is the single node n, which has no predecessor and no successor.
SingleNode(n) ==
    /\ NewReturnedGraph
    /\ GraphNodes = {n}
    /\ nodes[n].indegree = 0
    /\ nodes[n].Next = <<>>

\* C15: a graph of one node without predecessors whose EvalFunc is Min, Max or
\* Sum evaluates, for every worker count, to Result 0: the function is applied
\* once, to the closed and empty arrival buffer.
C15_NoInputYieldsZero ==
    \A n \in DOMAIN nodes :
        (SingleNode(n) /\ EvaluateReturnedNil /\ nodes[n].eval \in {MinFunc, MaxFunc, SumFunc}) =>
            /\ nodes[n].Result = 0
            /\ hist[n].writes = 1
            /\ hist[n].seen = <<>>
            /\ nodes[n].closed
\* A single Min node has been evaluated with two workers.
C15_Witness ==
    /\ EvaluateReturnedNil /\ concurrency = 2
    /\ \E n \in DOMAIN nodes : SingleNode(n) /\ nodes[n].eval = MinFunc /\ hist[n].writes = 1

\* The nodes that have left the queue, as the workers show it: a node is in the
\* hands of a worker, or its Result has been written.
TakenOff == {wnode[w] : w \in Busy} \cup {n \in DOMAIN nodes : hist[n].writes > 0}
\* The predecessors of n inside the graph.
Predecessors(n) == {p \in GraphNodes : Edge(p, n)}

\* C16: during Evaluate the nodes that have left the queue are a prefix of the
\* slice TopologicalSort returned, taken in its order, and every predecessor of
\* a node that has left the queue has left the queue too.
C16_QueueInSortedOrder ==
    (NewReturnedGraph /\ evalpc = "running") =>
        /\ TakenOff = {sorted[i] : i \in 1..fed}
        /\ \A w \in Busy : \E i \in 1..fed : sorted[i] = wnode[w]
        /\ \A n \in TakenOff : Predecessors(n) \subseteq TakenOff
\* Two workers: one has just taken a node with two predecessors off the queue
\* while the other still holds one of these predecessors.
C16_Witness ==
    /\ NewReturnedGraph /\ evalpc = "running"
    /\ \E w, v \in Busy :
         /\ wpc[w] = "wait"
         /\ Cardinality(Predecessors(wnode[w])) = 2
         /\ wnode[v] \in Predecessors(wnode[w])

\* C17: with concurrency 1 on a valid graph the worker never waits: whenever it
\* stands at n.wait.Wait() with a node it took off the queue, the node's
\* dependency counter is zero, and every predecessor has finished its
\* deliveries (the worker holds nothing else).
C17_SingleWorkerNeverWaits ==
    (ValidGraph /\ evalpc = "running" /\ concurrency = 1) =>
        \A w \in Workers :
            wpc[w] = "wait" =>
                /\ nodes[wnode[w]].wait = 0
                /\ Len(nodes[wnode[w]].inputs) = nodes[wnode[w]].indegree
                /\ \A p \in Predecessors(wnode[w]) : hist[p].writes = 1
\* The single worker is at Wait with a node that has two predecessors.
C17_Witness ==
    /\ ValidGraph /\ evalpc = "running" /\ concurrency = 1
    /\ \E w \in Workers :
         /\ wpc[w] = "wait"
         /\ Cardinality(Predecessors(wnode[w])) = 2

\* C18: at every moment of a running Evaluate(concurrency), the nodes that are
\* off the queue and not yet through evaluate() (each in the hands of one
\* worker: waiting, closing, aggregating or delivering) are at most concurrency,
\* and only the first `concurrency` workers exist.
C18_InFlightAtMostConcurrency ==
    (NewReturnedGraph /\ evalpc = "running") =>
        /\ Cardinality(Busy) <= concurrency
        /\ \A w \in Workers : w > concurrency => wpc[w] = "off"
        /\ fed - Cardinality(Busy) = Cardinality({n \in TakenOff : \A w \in Busy : wnode[w] # n})
\* One worker is busy with a node it waits for nothing on, and a node that
\* could be evaluated at once is still in the queue.
C18_Witness ==
    /\ NewReturnedGraph /\ evalpc = "running" /\ concurrency = 1
    /\ Cardinality(Busy) = 1
    /\ fed < Len(sorted)
    /\ nodes[sorted[fed + 1]].wait = 0

\* A worker stands at the send of next.receive (evaluate.go:64) and the buffer
\* of the receiving node is full.
BlockedInReceive(w) ==
    /\ wpc[w] = "send"
    /\ LET next == nodes[wnode[w]].Next[widx[w]]
       IN  ~nodes[next].closed /\ Len(nodes[next].inputs) >= nodes[next].cap
\* Some node of the graph has a dependency count above its buffer capacity.
OverCapacity == \E n \in GraphNodes : nodes[n].indegree > nodes[n].cap

\* C19: for a graph New returned, a delivery blocks exactly while the buffer is
\* full; when some node's indegree exceeds its buffer capacity Evaluate never
\* returns (a run that can go no further has a predecessor blocked in receive),
\* and when every indegree is within the capacity no delivery ever blocks.
C19_FanInAboveCapacityBlocks ==
    (NewReturnedGraph /\ evalpc # "idle") =>
        /\ \A w \in Workers :
             (evalpc = "running" /\ BlockedInReceive(w)) => ~ENABLED ReceiveSend(w)
        /\ OverCapacity =>
             /\ evalpc # "returned"
             /\ (evalpc = "running" /\ ~ENABLED Goroutines) => \E w \in Workers : BlockedInReceive(w)
        /\ ~OverCapacity => \A w \in Workers : ~BlockedInReceive(w)

\* C19 on valid graphs: the same statement for graphs in which every dependency
\* count is the number of incoming edges.
C19_FanInAboveCapacityBlocksValid == ValidGraph => C19_FanInAboveCapacityBlocks
\* A valid graph with a node over capacity: Evaluate can go no further and a
\* predecessor is blocked in receive.
C19_BlockedWitness ==
    /\ ValidGraph /\ OverCapacity
    /\ evalpc = "running" /\ ~ENABLED Goroutines
    /\ \E w \in Workers : BlockedInReceive(w)

\* C20: for every node of a graph New returned, the dependency count indegree
\* is the number of edges into it from nodes of the graph (one per predecessor
\* when no edge is doubled), the wait counter starts at that number, and
\* Evaluate leaves indegree as it was.
C20_IndegreeIsPredecessorCount ==
    NewReturnedGraph =>
        \A n \in GraphNodes :
            /\ nodes[n].indegree = Cardinality(IncomingEdges(GraphNodes, n))
            /\ evalpc = "idle" => nodes[n].wait = nodes[n].indegree

\* The Graph is not empty and an Evaluate call has evaluated every node of it.
AlreadyEvaluated == GraphNodes # {} /\ \A n \in GraphNodes : hist[n].writes >= 1
\* The second call of Evaluate on the Graph has been made.
SecondCall == NewReturnedGraph /\ calls = 2

\* C21: a second call of Evaluate on a non-empty graph that has already been
\* evaluated does not complete and recomputes nothing: it never returns, no
\* Result is written again, no worker gets past close(n.inputs), every node a
\* worker holds has its arrival buffer closed already and its counter at zero
\* (so Wait lets it through to the close), the call is never stuck short of
\* the fault, no worker is handed a second node, and the fault is the close of
\* a closed channel.
C21_SecondEvaluateFaultsOnClose ==
    (SecondCall /\ AlreadyEvaluated) =>
        /\ evalpc \in {"running", "panic"}
        /\ \A n \in GraphNodes : hist[n].writes = 1
        /\ \A w \in Workers : wpc[w] \in {"off", "range", "wait", "close", "done"}
        /\ \A w \in Busy : nodes[wnode[w]].closed /\ nodes[wnode[w]].wait = 0
        /\ evalpc = "running" => ENABLED Goroutines
        /\ fed <= concurrency
        /\ evalpc = "panic" => \E w \in Workers : wpc[w] = "close" /\ nodes[wnode[w]].closed
\* The second call on an evaluated graph of three nodes has ended in the fault,
\* at the first node of the sorted order.
C21_Witness ==
    /\ SecondCall /\ AlreadyEvaluated
    /\ Cardinality(GraphNodes) = MaxEvalNodes
    /\ evalpc = "panic"
    /\ \E w \in Workers : wpc[w] = "close" /\ wnode[w] = sorted[1] /\ nodes[wnode[w]].closed

\* The node a worker is delivering to (evaluate.go:58-59).
Target(w) == nodes[wnode[w]].Next[widx[w]]
\* The workers in the middle of a delivery to n: before the send or between the
\* send and wait.Done() (evaluate.go:64-65).
Delivering(n) == {w \in Workers : wpc[w] \in {"send", "done_input"} /\ Target(w) = n}
\* The values that have arrived in n's buffer so far.
Arrived(n) == IF hist[n].writes = 0 THEN nodes[n].inputs ELSE hist[n].seen

\* C22: during one Evaluate pass over a valid graph, in every interleaving, no
\* step faults (no send on a closed buffer, no second close, no counter below
\* zero); a worker about to send never faces a closed buffer and a worker about
\* to close never holds a closed one; a buffer that is closed has its counter at
\* zero, one arrived value per incoming edge, every predecessor evaluated and
\* no delivery to it under way; and each node is processed once: it is in the
\* hands of at most one worker, not yet evaluated while that worker is before
\* n.eval, and its Result is written at most once.
C22_NoSendAfterCloseNoSecondClose ==
    (ValidGraph /\ calls <= 1) =>
        /\ evalpc # "panic"
        /\ \A w \in Workers : wpc[w] = "send" => ~nodes[Target(w)].closed
        /\ \A w \in Workers : wpc[w] = "close" => ~nodes[wnode[w]].closed
        /\ \A n \in GraphNodes :
             nodes[n].closed =>
                 /\ nodes[n].wait = 0
                 /\ Len(Arrived(n)) = Cardinality(IncomingEdges(GraphNodes, n))
                 /\ \A p \in Predecessors(n) : hist[p].writes = 1
                 /\ Delivering(n) = {}
        /\ \A w1, w2 \in Busy : wnode[w1] = wnode[w2] => w1 = w2
        /\ \A w \in Busy : wpc[w] \in {"wait", "close", "eval"} => hist[wnode[w]].writes = 0
        /\ \A n \in GraphNodes : hist[n].writes <= 1
\* Two workers have each evaluated one predecessor of a node and delivered its
\* result, and the node's buffer has been closed after both deliveries.
C22_Witness ==
    /\ ValidGraph /\ calls = 1 /\ concurrency = 2
    /\ \E n \in GraphNodes :
         /\ nodes[n].closed
         /\ \E p, q \in Predecessors(n) : p # q /\ hist[p].writers # hist[q].writers
         /\ Len(Arrived(n)) = 2

====
